---- MODULE Spec2Model ----
(***************************************************************************)
(* Alternating-turn negotiation engine (AlternatingGame /                  *)
(* AlternatingGameEndsOnTag), the SimpleGame message parser and the        *)
(* ChatGPT agent shim.                                                     *)
(*                                                                         *)
(* Encoding.  A text is a sequence of tokens (strings); concatenation is   *)
(* \o and "x in y" is IsSubstring.  A Python list index i is the TLA+      *)
(* index i+1.  Every history entry is a record of one shape: the field     *)
(* kind tells the START and END sentinels from a turn entry ("TURN"); a    *)
(* key that a Python dict lacks is the empty value here, and the KeyError  *)
(* of reading it is modelled where the code reads it.                      *)
(***************************************************************************)
EXTENDS Integers, Sequences, FiniteSets, TLC

\* ------------------------------------------------------------------ bounds
MaxIterations == 3
\* game_over() calls an outside caller makes
MaxChecks == 2
\* memories stored one by one into the collection
MaxStored == 3
\* largest small count asked of a retrieval
MaxK == 2
\* messages an agent's conversation may hold before a further step
MaxConversation == 5
\* answered turns the negotiator may have stored
MaxTurns == 3

\* --------------------------------------------------------------- constants
MESSAGE_TAG == "message"
PLAYER_ANSWER_TAG == "player answer"
PROPOSED_TRADE_TAG == "newly proposed trade"
RESOURCES_TAG == "my resources"
MY_NAME_TAG == "my name"
REASONING_TAG == "reason"
OTHER_PLAYER_MESSAGE == "other player message"
OTHER_PLAYER_ANSWER == "other player answer"
OTHER_PLAYER_PROPOSED_TRADE == "other player proposed trade"
ACCEPTING_TAG == <<"ACCEPT">>
NONE == <<"NONE">>
\* the value of self.turn and of the "turn" key of START/END ("None")
NoTurn == -1
\* a model reply that is not a string (message.content is None)
NoneResponse == <<"#None">>

\* ------------------------------------------------------------------- texts
Open(tag) == "<" \o tag \o ">"
Close(tag) == "</" \o tag \o ">"

\* s occurs in t as a contiguous run of tokens (Python: s in t)
IsSubstring(s, t) ==
    \E i \in 0..(Len(t) - Len(s)) : SubSeq(t, i + 1, i + Len(s)) = s

\* str.find for one token: first position, 0 when absent
Find(text, tok) ==
    IF \E i \in 1..Len(text) : text[i] = tok
    THEN CHOOSE i \in 1..Len(text) :
            text[i] = tok /\ \A j \in 1..(i - 1) : text[j] # tok
    ELSE 0

\* "\n".join(parts)
RECURSIVE Join(_)
Join(parts) ==
    IF Len(parts) = 0 THEN <<>>
    ELSE IF Len(parts) = 1 THEN parts[1]
    ELSE parts[1] \o <<"\n">> \o Join(Tail(parts))

\* ------------------------------------------------------------------ parser
\* the tag's contents; a missing or unclosed tag gives the empty text
get_tag_contents(response, tag) ==
    LET a == Find(response, Open(tag))
        b == Find(response, Close(tag))
    IN  IF a = 0 \/ b = 0 \/ b < a THEN <<>> ELSE SubSeq(response, a + 1, b - 1)

\* get_tag_contents on a non-string raises; parse calls it outside any try
ParseRaises(response) == response = NoneResponse

\* trades the trade parser accepts
ValidTrades == { <<"RED:X:1", "|", "BLUE:M:55">>, <<"RED:X:1", "|", "BLUE:M:50">> }

\* parse_trade inside try/except: None (here <<>>) when it raises or the
\* contents are the NONE sentinel
parse_trade(response, tag) ==
    LET c == get_tag_contents(response, tag)
    IN  IF c \in ValidTrades THEN c ELSE <<>>

\* Resources.from_string inside try/except: Resources({}) when it raises
ValidResources == { <<"X:1">>, <<"M:1000">> }

resources_from_string(response) ==
    LET c == get_tag_contents(response, RESOURCES_TAG)
    IN  IF c \in ValidResources THEN c ELSE <<>>

\* variant: the fields are stored as extracted, without the defaults
parse_no_defaults(response) ==
    LET resources == get_tag_contents(response, RESOURCES_TAG)
        answer == get_tag_contents(response, PLAYER_ANSWER_TAG)
        reasoning == get_tag_contents(response, REASONING_TAG)
        message == get_tag_contents(response, MESSAGE_TAG)
        my_name == get_tag_contents(response, MY_NAME_TAG)
        trade == get_tag_contents(response, PROPOSED_TRADE_TAG)
    IN  [public |-> [message |-> message,
                     player_answer |-> answer,
                     proposed_trade |-> trade],
         secret |-> [resources |-> resources,
                     name |-> my_name,
                     reason |-> reasoning]]

\* SimpleGameDefaultParser.parse (for a response that does not raise)
parse(response) ==
    LET resources == resources_from_string(response)
        answer == get_tag_contents(response, PLAYER_ANSWER_TAG)
        reasoning == get_tag_contents(response, REASONING_TAG)
        message == get_tag_contents(response, MESSAGE_TAG)
        my_name == get_tag_contents(response, MY_NAME_TAG)
        trade == parse_trade(response, PROPOSED_TRADE_TAG)
    IN  [public |-> [message |-> message,
                     player_answer |-> IF answer # <<>> THEN answer ELSE NONE,
                     proposed_trade |-> IF trade # <<>> THEN trade ELSE NONE],
         secret |-> [resources |-> resources,
                     name |-> my_name,
                     reason |-> reasoning]]

\* variant: the rendering also quotes the sender's reasoning
message_to_other_player_leaky(ms) ==
    <<Open(OTHER_PLAYER_MESSAGE)>> \o ms.public.message \o ms.secret.reason
        \o <<Close(OTHER_PLAYER_MESSAGE), "\n">>
    \o <<Open(OTHER_PLAYER_ANSWER)>> \o ms.public.player_answer
        \o <<Close(OTHER_PLAYER_ANSWER), "\n">>
    \o <<Open(OTHER_PLAYER_PROPOSED_TRADE)>> \o ms.public.proposed_trade
        \o <<Close(OTHER_PLAYER_PROPOSED_TRADE), "\n">>

\* SimpleGameAgentMessage.message_to_other_player
message_to_other_player(ms) ==
    <<Open(OTHER_PLAYER_MESSAGE)>> \o ms.public.message
        \o <<Close(OTHER_PLAYER_MESSAGE), "\n">>
    \o <<Open(OTHER_PLAYER_ANSWER)>> \o ms.public.player_answer
        \o <<Close(OTHER_PLAYER_ANSWER), "\n">>
    \o <<Open(OTHER_PLAYER_PROPOSED_TRADE)>> \o ms.public.proposed_trade
        \o <<Close(OTHER_PLAYER_PROPOSED_TRADE), "\n">>

\* a response text with the given tag contents; <<"-">> leaves the tag out
Absent == <<"-">>
Tagged(tag, c) == IF c = Absent THEN <<>> ELSE <<Open(tag)>> \o c \o <<Close(tag)>>

Raw(name, res, reason, answer, trade, msg) ==
    Tagged(MY_NAME_TAG, name) \o Tagged(RESOURCES_TAG, res)
    \o Tagged(REASONING_TAG, reason) \o Tagged(PLAYER_ANSWER_TAG, answer)
    \o Tagged(PROPOSED_TRADE_TAG, trade) \o Tagged(MESSAGE_TAG, msg)

\* ------------------------------------------------------------- agent shim
Players == {0, 1}
SystemPrompt(idx) == <<"game prompt " \o ToString(idx), "=== PROTOCOL ===">>
Role(idx) == <<"role " \o ToString(idx)>>

\* ChatGPTAgent.update_conversation_tracking
update_conversation_tracking(conversation, role, message) ==
    Append(conversation, [role |-> role, content |-> message])

\* ChatGPTAgent.__init__ followed by init_agent: AGENT_ONE is player 0
init_agent(idx) ==
    [conversation |->
        IF idx = 0
        THEN update_conversation_tracking(
                 update_conversation_tracking(<<>>, "system", SystemPrompt(idx)),
                 "user", Role(idx))
        ELSE update_conversation_tracking(<<>>, "system",
                 SystemPrompt(idx) \o Role(idx)),
     turn_count |-> 0]

\* the turn banner step() adds for AGENT_TWO (no "Gives Dollars" offer in
\* the observation)
turn_context(turn_count) ==
    <<"=== TURN " \o ToString((turn_count + 1) \div 2) \o "/3 (Exchange "
        \o ToString(turn_count) \o "/6) ===", "==================">>

\* ChatGPTAgent.step up to the model call
step_begin(player, idx, observation) ==
    LET tc == player.turn_count + 1
        obs == IF idx = 1 THEN observation \o turn_context(tc) ELSE observation
    IN  [conversation |->
             update_conversation_tracking(player.conversation, "user", obs),
         turn_count |-> tc]

\* ChatGPTAgent.step after the model call returned reply
step_end(player, reply) ==
    [player EXCEPT !.conversation =
        update_conversation_tracking(player.conversation, "assistant", reply)]

\* Agent.get_state / Agent.from_dict: a deep copy of the agent's fields
get_state(player) == player
from_dict(state) == state

\* ------------------------------------------------------------ game engine
EmptyPublic == [message |-> <<>>, player_answer |-> <<>>, proposed_trade |-> <<>>]
EmptySecret == [resources |-> <<>>, name |-> <<>>, reason |-> <<>>]

VARIABLES game_state, turn, current_iteration, iterations, players,
          pc, iteration, response, parsed

\* what an outside caller of game_over() saw last
VARIABLES over

\* the memory system: the stored collection, the last retrieval result and
\* the memory-augmented negotiator
VARIABLES collection, retrieved, current_session_id, turn_counter, mpc,
          pending

\* one agent driven by a caller through init_agent and step, and what the
\* caller saw of its last call
VARIABLES agent, call

memvars == <<collection, retrieved, current_session_id, turn_counter, mpc,
             pending>>

chatvars == <<agent, call>>

\* the holdings of the two players of a trading game
VARIABLES player_resources

tradevars == <<player_resources>>

gamevars == <<game_state, turn, current_iteration, iterations, players,
              pc, iteration, response, parsed>>

agentvars == <<current_session_id, turn_counter, mpc, pending>>

vars == <<game_state, turn, current_iteration, iterations, players,
          pc, iteration, response, parsed, over, memvars, chatvars,
          tradevars>>

\* Resources: a mapping from resource names to quantities
MONEY_TOKEN == "M"
StartingMoney == 1000
StartingResources == <<[X |-> 1], [M |-> StartingMoney]>>

\* no call of the agent so far
NoCall == [op |-> "", observation |-> <<>>, request |-> <<>>, reply |-> <<>>,
           outcome |-> "", before |-> <<>>]

\* the agent classes
Kinds == {"ChatGPTAgent", "LLama2ChatAgent", "MemoryAugmentedAgentOpenAI",
          "StatelessAgent"}

\* __init__ of an agent class for player idx: conversation = [],
\* turn_count = 0, move_number = 0, _base_prompt = None
new_agent(kind, idx) ==
    [kind |-> kind, idx |-> idx, conversation |-> <<>>, turn_count |-> 0,
     move_number |-> 0, base_prompt |-> <<"None">>]

\* an agent nobody calls, and the holdings a buy-sell game starts with
ChatFresh ==
    /\ agent = new_agent("ChatGPTAgent", 0)
    /\ call = NoCall
    /\ player_resources = StartingResources

\* no game_over() call from outside so far
NoCheck == [calls |-> 0, tag |-> "", simple |-> "", on |-> <<>>]

\* no retrieval so far
NoResult == [op |-> "", query |-> <<>>, session_id |-> "", k |-> 0,
             recency_weight |-> 0, similarity_weight |-> 0, memories |-> <<>>,
             total_memories |-> -1]

\* current_session_id before start_session
NoSession == "None"

\* ChromaMemoryStore.__init__ on a fresh directory and
\* MemoryAugmentedNegotiator.__init__
MemoryFresh ==
    /\ collection = <<>>
    /\ retrieved = NoResult
    /\ current_session_id = NoSession
    /\ turn_counter = 0
    /\ mpc = "ready"
    /\ pending = <<>>

\* the parsed message before any parse() call of the parser harness
NoMessage == [public |-> EmptyPublic, secret |-> EmptySecret, text |-> <<>>]

Sentinel(kind) ==
    [kind |-> kind, current_iteration |-> 0, turn |-> NoTurn,
     player_public_answer_string |-> <<>>,
     player_public_info_dict |-> EmptyPublic,
     player_private_info_dict |-> EmptySecret,
     player_complete_answer |-> <<>>,
     player_state |-> <<>>]

\* SimpleGame.__init__: the history starts with the START entry
StartEntry == Sentinel("START")

\* SimpleGame.after_game_ends: append the END summary entry
after_game_ends(gs) == Append(gs, Sentinel("END"))

\* the {} that read_iteration_message returns, and str() of it
EmptyObservation == <<"{}">>

\* variant: the observation is the raw response of the entry
read_iteration_message_raw(gs, it) ==
    IF it < 0 \/ it >= Len(gs) THEN EmptyObservation
    ELSE gs[it + 1].player_complete_answer

\* AlternatingGame.read_iteration_message(iteration) on history gs
read_iteration_message(gs, it) ==
    IF it < 0 \/ it >= Len(gs) THEN EmptyObservation
    ELSE LET public_info == gs[it + 1].player_public_info_dict
             message == public_info.message
             proposed_trade == public_info.proposed_trade
             player_answer == public_info.player_answer
             parts ==
                 (IF message # <<>>
                  THEN << <<"Opponent says:">> \o message >> ELSE <<>>)
                 \o (IF proposed_trade # <<>> /\ proposed_trade # NONE
                     THEN << <<"Opponent's proposal:">> \o proposed_trade >>
                     ELSE <<>>)
                 \o (IF player_answer # <<>> /\ player_answer # NONE
                     THEN << <<"Opponent's answer:">> \o player_answer >>
                     ELSE <<>>)
         IN  IF message = <<>> /\ proposed_trade = <<>> THEN EmptyObservation
             ELSE IF parts # <<>> THEN Join(parts) ELSE EmptyObservation

\* the datum write_game_state builds from a response that parses
Datum(cur, t, ps, resp) ==
    LET agent_message == parse(resp)
    IN  [kind |-> "TURN", current_iteration |-> cur, turn |-> t,
         player_public_answer_string |-> message_to_other_player(agent_message),
         player_public_info_dict |-> agent_message.public,
         player_private_info_dict |-> agent_message.secret,
         player_complete_answer |-> resp,
         player_state |-> <<get_state(ps[0]), get_state(ps[1])>>]

\* variant: the new datum replaces the last entry
write_game_state_overwrite(gs, cur, t, ps, resp) ==
    Append(SubSeq(gs, 1, Len(gs) - 1), Datum(cur, t, ps, resp))

\* AlternatingGame.write_game_state (response parses)
write_game_state(gs, cur, t, ps, resp) == Append(gs, Datum(cur, t, ps, resp))

\* variant: the turn is not switched
get_next_player_stuck(t) == t

\* AlternatingGame.get_next_player
get_next_player(t) == 1 - t

\* variant: only the iteration maximum ends the game
game_over_max_only(gs, its) == gs[Len(gs)].current_iteration = its

\* variant: only the terminal tag ends the game
game_over_tag_only(gs, its) ==
    gs[Len(gs)].player_public_info_dict.player_answer = ACCEPTING_TAG

\* AlternatingGameEndsOnTag.game_over
game_over(gs, its) ==
    LET state == gs[Len(gs)]
    IN  \/ state.player_public_info_dict.player_answer = ACCEPTING_TAG
        \/ state.current_iteration = its

\* a call of AlternatingGameEndsOnTag.game_over() as its caller sees it: the
\* START and END entries have no player_public_info_dict (KeyError)
game_over_call(gs, its) ==
    LET state == gs[Len(gs)]
    IN  IF state.kind # "TURN" THEN "KeyError"
        ELSE IF game_over(gs, its) THEN "True" ELSE "False"

\* a call of SimpleGame.game_over() as its caller sees it: the START and END
\* entries carry a string as current_iteration (TypeError on >=)
simple_game_over(gs, its) ==
    LET state == gs[Len(gs)]
        it == state.current_iteration
    IN  IF state.kind # "TURN" THEN "TypeError"
        ELSE IF it >= its THEN "True" ELSE "False"

\* replies the model may give
Responses ==
    { Raw(<<"RED">>, <<"X:1">>, <<"ask high">>, <<"PROPOSAL">>,
          <<"RED:X:1", "|", "BLUE:M:55">>, <<"offer">>),
      Raw(<<"RED">>, <<"X:1">>, <<"bluff">>, <<"PROPOSAL">>,
          <<"RED:X:1", "|", "BLUE:M:55">>, <<"offer">>),
      Raw(<<"BLUE">>, <<"M:1000">>, <<"good price">>, ACCEPTING_TAG,
          NONE, <<"deal">>),
      <<"hello">> }

Init ==
    /\ iterations \in 1..MaxIterations
    /\ game_state = <<StartEntry>>
    /\ turn = 0
    /\ current_iteration = 1
    /\ players = [idx \in Players |-> init_agent(idx)]
    /\ pc = "idle"
    /\ iteration = 1
    /\ response = <<>>
    /\ parsed = NoMessage
    /\ over = NoCheck
    /\ MemoryFresh
    /\ ChatFresh

\* run(): enter the loop over range(current_iteration, iterations + 1)
RunStart ==
    /\ pc = "idle"
    /\ iteration' = current_iteration
    /\ pc' = IF current_iteration <= iterations THEN "loop" ELSE "returned"
    /\ UNCHANGED <<game_state, turn, current_iteration, iterations, players,
                   response, parsed>>
    /\ UNCHANGED <<over, memvars, chatvars, tradevars>>

\* loop body up to the model call: read the observation, enter step()
StepCall ==
    /\ pc = "loop"
    /\ current_iteration' = iteration
    /\ LET message == read_iteration_message(game_state, iteration - 1)
       IN  players' = [players EXCEPT
                         ![turn] = step_begin(players[turn], turn, message)]
    /\ pc' = "chat"
    /\ UNCHANGED <<game_state, turn, iterations, iteration, response,
                   parsed>>
    /\ UNCHANGED <<over, memvars, chatvars, tradevars>>

\* the model call returns: step() records the reply and returns it
StepReturn(reply) ==
    /\ pc = "chat"
    /\ players' = [players EXCEPT ![turn] = step_end(players[turn], reply)]
    /\ response' = reply
    /\ pc' = "write"
    /\ UNCHANGED <<game_state, turn, current_iteration, iterations, iteration,
                   parsed>>
    /\ UNCHANGED <<over, memvars, chatvars, tradevars>>

\* variant: the engine calls step again when the model call raises
StepRaise_retry ==
    /\ pc = "chat"
    /\ pc' = "loop"
    /\ UNCHANGED <<game_state, turn, current_iteration, iterations, players,
                   iteration, response, parsed>>
    /\ UNCHANGED <<over, memvars, chatvars, tradevars>>

\* the model call raises: chat() re-raises, step() and run() propagate
StepRaise ==
    /\ pc = "chat"
    /\ pc' = "aborted"
    /\ UNCHANGED <<game_state, turn, current_iteration, iterations, players,
                   iteration, response, parsed>>
    /\ UNCHANGED <<over, memvars, chatvars, tradevars>>

\* variant: a response that does not parse is recorded as an entry of
\* defaults and the game goes on
WriteGameState_swallow ==
    /\ pc = "write"
    /\ LET resp == IF ParseRaises(response) THEN <<>> ELSE response
           written == write_game_state(game_state, current_iteration,
                                       turn, players, resp)
       IN  IF game_over(written, iterations)
           THEN /\ game_state' = after_game_ends(written)
                /\ pc' = "done"
                /\ UNCHANGED <<turn, iteration>>
           ELSE /\ game_state' = written
                /\ turn' = get_next_player(turn)
                /\ iteration' = iteration + 1
                /\ pc' = IF iteration + 1 <= iterations
                         THEN "loop" ELSE "returned"
    /\ UNCHANGED <<current_iteration, iterations, players, response, parsed>>
    /\ UNCHANGED <<over, memvars, chatvars, tradevars>>

\* rest of the loop body: write_game_state, game_over, after_game_ends or
\* get_next_player
WriteGameState ==
    /\ pc = "write"
    /\ IF ParseRaises(response)
       THEN /\ pc' = "aborted"
            /\ UNCHANGED <<game_state, turn, iteration>>
       ELSE LET written == write_game_state(game_state, current_iteration,
                                            turn, players, response)
            IN  IF game_over(written, iterations)
                THEN /\ game_state' = after_game_ends(written)
                     /\ pc' = "done"
                     /\ UNCHANGED <<turn, iteration>>
                ELSE /\ game_state' = written
                     /\ turn' = get_next_player(turn)
                     /\ iteration' = iteration + 1
                     /\ pc' = IF iteration + 1 <= iterations
                              THEN "loop" ELSE "returned"
    /\ UNCHANGED <<current_iteration, iterations, players, response,
                   parsed>>
    /\ UNCHANGED <<over, memvars, chatvars, tradevars>>

\* variant: the players in memory are kept, not rebuilt from the snapshot
Resume_live(k) ==
    /\ pc \in {"idle", "aborted", "done", "returned", "resume_failed",
               "resume_invalid"}
    /\ IF k > Len(game_state)
       THEN /\ pc' = "resume_invalid"
            /\ UNCHANGED <<game_state, turn, current_iteration, players>>
       ELSE IF game_state[k].kind # "TURN"
       THEN /\ current_iteration' = k
            /\ turn' = game_state[k].turn
            /\ pc' = "resume_failed"
            /\ UNCHANGED <<game_state, players>>
       ELSE LET t == game_state[k].turn
                conv == game_state[k].player_state[t + 1].conversation
                last_response == conv[Len(conv)].content
                truncated == SubSeq(game_state, 1, k - 1)
            IN  /\ current_iteration' = k
                /\ players' = players
                /\ game_state' = write_game_state(truncated, k, t, players,
                                                  last_response)
                /\ turn' = get_next_player(t)
                /\ pc' = "idle"
    /\ UNCHANGED <<iterations, iteration, response, parsed>>
    /\ UNCHANGED <<over, memvars, chatvars, tradevars>>

\* AlternatingGame.resume(k), called between runs
Resume(k) ==
    /\ pc \in {"idle", "aborted", "done", "returned", "resume_failed",
               "resume_invalid"}
    /\ IF k > Len(game_state)
       THEN \* the guard raises before anything is assigned
            /\ pc' = "resume_invalid"
            /\ UNCHANGED <<game_state, turn, current_iteration, players>>
       ELSE IF game_state[k].kind # "TURN"
       THEN \* START and END have no player_state: KeyError after the
            \* assignments of current_iteration and turn
            /\ current_iteration' = k
            /\ turn' = game_state[k].turn
            /\ pc' = "resume_failed"
            /\ UNCHANGED <<game_state, players>>
       ELSE LET t == game_state[k].turn
                conv == game_state[k].player_state[t + 1].conversation
                last_response == conv[Len(conv)].content
                restored == [idx \in Players |->
                                from_dict(game_state[k].player_state[idx + 1])]
                truncated == SubSeq(game_state, 1, k - 1)
            IN  /\ current_iteration' = k
                /\ players' = restored
                /\ game_state' = write_game_state(truncated, k, t, restored,
                                                  last_response)
                /\ turn' = get_next_player(t)
                /\ pc' = "idle"
    /\ UNCHANGED <<iterations, iteration, response, parsed>>
    /\ UNCHANGED <<over, memvars, chatvars, tradevars>>

\* variant: the termination check consumes an iteration
GameOverCheck_consuming ==
    /\ pc \in {"idle", "aborted", "done", "returned", "resume_failed",
               "resume_invalid"}
    /\ over.calls < MaxChecks
    /\ current_iteration' = current_iteration + 1
    /\ over' = [calls |-> over.calls + 1,
                tag |-> game_over_call(game_state, iterations),
                simple |-> simple_game_over(game_state, iterations),
                on |-> <<game_state, turn, current_iteration>>]
    /\ UNCHANGED <<game_state, turn, iterations, players, pc,
                   iteration, response, parsed, memvars, chatvars,
                   tradevars>>

\* game_over() called from outside run(), between two calls of the engine
GameOverCheck ==
    /\ pc \in {"idle", "aborted", "done", "returned", "resume_failed",
               "resume_invalid"}
    /\ over.calls < MaxChecks
    /\ over' = [calls |-> over.calls + 1,
                tag |-> game_over_call(game_state, iterations),
                simple |-> simple_game_over(game_state, iterations),
                on |-> <<game_state, turn, current_iteration>>]
    /\ UNCHANGED <<game_state, turn, current_iteration, iterations, players, pc,
                   iteration, response, parsed, memvars, chatvars,
                   tradevars>>

Next ==
    \/ RunStart
    \/ StepCall
    \/ \E reply \in Responses \cup {NoneResponse} : StepReturn(reply)
    \/ StepRaise
    \/ WriteGameState
    \/ \E k \in 1..(Len(game_state) + 1) : Resume(k)

Spec == Init /\ [][Next]_vars

\* a game that is run once from construction, never resumed
NextRun ==
    \/ RunStart
    \/ StepCall
    \/ \E reply \in Responses \cup {NoneResponse} : StepReturn(reply)
    \/ StepRaise
    \/ WriteGameState

SpecRun == Init /\ [][NextRun]_vars

\* run() called again on a game whose run() has returned
RunAgain ==
    /\ pc \in {"done", "returned"}
    /\ Len(game_state) <= MaxIterations + 2
    /\ iteration' = current_iteration
    /\ pc' = IF current_iteration <= iterations THEN "loop" ELSE "returned"
    /\ UNCHANGED <<game_state, turn, current_iteration, iterations, players,
                   response, parsed>>
    /\ UNCHANGED <<over, memvars, chatvars, tradevars>>

\* a game that is run, and run again after it has finished
NextRerun ==
    \/ RunStart
    \/ StepCall
    \/ \E reply \in Responses \cup {NoneResponse} : StepReturn(reply)
    \/ StepRaise
    \/ WriteGameState
    \/ RunAgain

SpecRerun == Init /\ [][NextRerun]_vars

\* resume(k) on a game that has not ended: the recovery of an aborted run
ResumeUnfinished(k) ==
    /\ pc \notin {"done", "returned"}
    /\ Resume(k)

\* a game that is run, and resumed only while it has not ended
NextRecover ==
    \/ RunStart
    \/ StepCall
    \/ \E reply \in Responses \cup {NoneResponse} : StepReturn(reply)
    \/ StepRaise
    \/ WriteGameState
    \/ \E k \in 1..(Len(game_state) + 1) : ResumeUnfinished(k)

SpecRecover == Init /\ [][NextRecover]_vars

\* a game that is run and recovered until an outside caller starts calling
\* its termination check
NextCheck ==
    \/ over.calls = 0 /\ RunStart
    \/ over.calls = 0 /\ StepCall
    \/ over.calls = 0 /\ \E reply \in Responses \cup {NoneResponse} :
                             StepReturn(reply)
    \/ over.calls = 0 /\ StepRaise
    \/ over.calls = 0 /\ WriteGameState
    \/ over.calls = 0 /\ \E k \in 1..(Len(game_state) + 1) :
                             ResumeUnfinished(k)
    \/ GameOverCheck

SpecCheck == Init /\ [][NextCheck]_vars

\* ---------------------------------------------------------- parser harness
\* contents a model may put in a tag (Absent: no such tag)
NameTexts == {Absent, <<"RED">>}
ResourceTexts == {Absent, <<"X:1">>, <<"junk">>}
ReasonTexts == {Absent, <<"deal">>, <<"bluff">>}
AnswerTexts == {Absent, ACCEPTING_TAG, NONE}
TradeTexts == {Absent, NONE, <<"RED:X:1", "|", "BLUE:M:55">>, <<"junk">>}
MessageTexts == {Absent, <<"deal">>, <<"good", "deal">>, <<"RED">>}

ParserInputs ==
    { Raw(n, r, why, a, t, m) :
        n \in NameTexts, r \in ResourceTexts, why \in ReasonTexts,
        a \in AnswerTexts, t \in TradeTexts, m \in MessageTexts }

InitParse ==
    /\ iterations = 1
    /\ game_state = <<StartEntry>>
    /\ turn = 0
    /\ current_iteration = 1
    /\ players = [idx \in Players |-> init_agent(idx)]
    /\ iteration = 1
    /\ parsed = NoMessage
    /\ response \in ParserInputs
    /\ pc = "parse"
    /\ over = NoCheck
    /\ MemoryFresh
    /\ ChatFresh

\* game_interface.parse(response) and message_to_other_player() on its result
ParseMessage ==
    /\ pc = "parse"
    /\ LET ms == parse(response)
       IN  parsed' = [public |-> ms.public, secret |-> ms.secret,
                             text |-> message_to_other_player(ms)]
    /\ pc' = "parsed"
    /\ UNCHANGED <<game_state, turn, current_iteration, iterations, players,
                   iteration, response>>
    /\ UNCHANGED <<over, memvars, chatvars, tradevars>>

NextParse == ParseMessage

SpecParse == InitParse /\ [][NextParse]_vars

\* ------------------------------------------------------------ memory system
Min(a, b) == IF a <= b THEN a ELSE b
Max(a, b) == IF a >= b THEN a ELSE b

\* seq[:n] of Python, n of either sign
Prefix(seq, n) ==
    SubSeq(seq, 1, IF n >= 0 THEN Min(n, Len(seq)) ELSE Max(Len(seq) + n, 0))

\* list.sort: before[j, i] says that position j of seq goes before position i;
\* it is the key order, with ties kept in their order in seq (stable sort)
Sorted(seq, before) ==
    LET n == Len(seq)
        rank == [i \in 1..n |-> Cardinality({j \in 1..n : before[j, i]})]
                  @@ <<>>
    IN  [p \in 1..n |-> seq[CHOOSE i \in 1..n : rank[i] = p - 1]]

\* the positions 1..n as a sequence
Positions(n) == [i \in 1..n |-> i]

\* filter by position, order kept
Keep(seq, test) ==
    LET kept == SelectSeq(Positions(Len(seq)), LAMBDA p : test[p])
    IN  [p \in 1..Len(kept) |-> seq[kept[p]]]

\* keyword in message_lower, for texts of lower-case words
Mentions(message, keyword) == IsSubstring(keyword, message)

\* EmbeddingGenerator.generate: a deterministic embedder, two coordinates
generate(text) ==
    <<1 + Cardinality({i \in 1..Len(text) : text[i] = "price"}),
      1 + Cardinality({i \in 1..Len(text) : text[i] = "alliance"})>>

Dot(a, b) == a[1] * b[1] + a[2] * b[2]

\* cosine distance of a to q is smaller than that of b (coordinates >= 0)
Nearer(q, a, b) ==
    Dot(q, a) * Dot(q, a) * Dot(b, b) > Dot(q, b) * Dot(q, b) * Dot(a, a)

\* where=None and limit=None of collection.get
NoFilter == "*"
NoLimit == -1

\* collection.get(where={"session_id": ...}, limit=...): insertion order
get(coll, where, limit) ==
    LET hits == SelectSeq(coll,
                    LAMBDA m : where = NoFilter \/ m.session_id = where)
    IN  IF limit = NoLimit THEN hits ELSE SubSeq(hits, 1, Min(limit, Len(hits)))

\* collection.query(query_embeddings, n_results, where): nearest first
query(coll, query_embedding, n_results, where) ==
    LET hits == get(coll, where, NoLimit)
        ordered == Sorted(hits, [j, i \in 1..Len(hits) |->
                     \/ Nearer(query_embedding, hits[j].embedding,
                               hits[i].embedding)
                     \/ /\ ~Nearer(query_embedding, hits[i].embedding,
                                   hits[j].embedding)
                        /\ j < i])
    IN  SubSeq(ordered, 1, Min(n_results, Len(ordered)))

\* ChromaMemoryStore.store: a memory without id gets a fresh uuid
store(coll, memory) ==
    Append(coll, IF memory.memory_id = 0
                 THEN [memory EXCEPT !.memory_id = Len(coll) + 1]
                 ELSE memory)

\* ChromaMemoryStore.store_batch
RECURSIVE store_batch(_, _)
store_batch(coll, memories) ==
    IF memories = <<>> THEN coll
    ELSE store_batch(store(coll, Head(memories)), Tail(memories))

\* ChromaMemoryStore.retrieve_by_similarity(query_embedding, k, filters)
retrieve_by_similarity(coll, query_embedding, k, where) ==
    LET collection_count == Len(coll)
        n_results == Min(k, collection_count)
    IN  IF collection_count = 0 THEN <<>>
        ELSE IF n_results <= 0 THEN <<>>
        ELSE query(coll, query_embedding, n_results, where)

\* ChromaMemoryStore.retrieve_by_session(session_id, limit)
retrieve_by_session(coll, session_id, limit) ==
    LET memories == get(coll, session_id, limit)
    IN  Sorted(memories, [j, i \in 1..Len(memories) |->
            \/ memories[j].turn_id < memories[i].turn_id
            \/ memories[j].turn_id = memories[i].turn_id /\ j < i])

\* variant: the memories of all sessions are considered
retrieve_recent_all_sessions(coll, n, session_id) ==
    LET memories == get(coll, NoFilter, NoLimit)
        newest_first == Sorted(memories, [j, i \in 1..Len(memories) |->
            \/ memories[j].timestamp > memories[i].timestamp
            \/ memories[j].timestamp = memories[i].timestamp /\ j < i])
    IN  Prefix(newest_first, n)

\* variant: the list is returned whole
retrieve_recent_unsliced(coll, n, session_id) ==
    LET where == IF session_id \in {NoSession, ""} THEN NoFilter
                 ELSE session_id
        memories == get(coll, where, NoLimit)
    IN  Sorted(memories, [j, i \in 1..Len(memories) |->
            \/ memories[j].timestamp > memories[i].timestamp
            \/ memories[j].timestamp = memories[i].timestamp /\ j < i])

\* ChromaMemoryStore.retrieve_recent(n, session_id)
retrieve_recent(coll, n, session_id) ==
    LET where == IF session_id \in {NoSession, ""} THEN NoFilter
                 ELSE session_id
        memories == get(coll, where, NoLimit)
        newest_first == Sorted(memories, [j, i \in 1..Len(memories) |->
            \/ memories[j].timestamp > memories[i].timestamp
            \/ memories[j].timestamp = memories[i].timestamp /\ j < i])
    IN  Prefix(newest_first, n)

\* variant: the count is that of the whole collection
get_stats_collection(coll, session_id) ==
    [total_memories |-> Len(coll),
     unique_speakers |-> Cardinality({coll[i].speaker : i \in 1..Len(coll)})]

\* ChromaMemoryStore.get_stats(session_id)
get_stats(coll, session_id) ==
    LET results == get(coll, session_id, NoLimit)
    IN  [total_memories |-> Len(results),
         unique_speakers |->
             Cardinality({results[i].speaker : i \in 1..Len(results)})]

\* MemoryRetriever._semantic_retrieval
semantic_retrieval(coll, query_text, session_id, k) ==
    retrieve_by_similarity(coll, generate(query_text), k, session_id)

\* MemoryRetriever._recency_retrieval
recency_retrieval(coll, session_id, k) == retrieve_recent(coll, k, session_id)

\* cap on the candidates hybrid retrieval asks of each source
CandidateCap == 50

\* importance (in tenths) a non-critical entry must exceed to be backfilled
ImportanceFloor == 7

\* the candidates of hybrid retrieval: the dict all_candidates in insertion
\* order (semantic results, then the recent ones not seen before)
hybrid_candidates(coll, query_text, session_id, k) ==
    LET candidate_k == Min(k * 3, CandidateCap)
        semantic_results ==
            semantic_retrieval(coll, query_text, session_id, candidate_k)
        recent_results == recency_retrieval(coll, session_id, candidate_k)
        both == semantic_results \o recent_results
    IN  Keep(both, [p \in 1..Len(both) |->
            \A q \in 1..(p - 1) : both[q].memory_id # both[p].memory_id])

\* variant: the similarity term grows with the semantic rank
combined_score_rank_up(mem, semantic_results, max_turn, recency_weight, similarity_weight) ==
    LET length == Max(Len(semantic_results), 1)
        found == {i \in 1..Len(semantic_results) :
                     semantic_results[i].memory_id = mem.memory_id}
        semantic_rank ==
            IF found = {} THEN Len(semantic_results)
            ELSE (CHOOSE i \in found : \A j \in found : i <= j) - 1
    IN  10 * recency_weight * mem.turn_id * length
        + 10 * similarity_weight * semantic_rank * max_turn
        + mem.importance_score * max_turn * length
        + (IF mem.is_critical THEN 10 ELSE 0) * max_turn * length

\* variant: the recency term is left out of the score
combined_score_no_recency(mem, semantic_results, max_turn, recency_weight, similarity_weight) ==
    LET length == Max(Len(semantic_results), 1)
        found == {i \in 1..Len(semantic_results) :
                     semantic_results[i].memory_id = mem.memory_id}
        semantic_rank ==
            IF found = {} THEN Len(semantic_results)
            ELSE (CHOOSE i \in found : \A j \in found : i <= j) - 1
    IN  10 * similarity_weight * (length - semantic_rank) * max_turn
        + mem.importance_score * max_turn * length
        + (IF mem.is_critical THEN 10 ELSE 0) * max_turn * length

\* combined_score of one candidate in units of 1/(100 * max_turn * length),
\* the weights and the importance in tenths
combined_score(mem, semantic_results, max_turn, recency_weight, similarity_weight) ==
    LET length == Max(Len(semantic_results), 1)
        found == {i \in 1..Len(semantic_results) :
                     semantic_results[i].memory_id = mem.memory_id}
        semantic_rank ==
            IF found = {} THEN Len(semantic_results)
            ELSE (CHOOSE i \in found : \A j \in found : i <= j) - 1
    IN  10 * recency_weight * mem.turn_id * length
        + 10 * similarity_weight * (length - semantic_rank) * max_turn
        + mem.importance_score * max_turn * length
        + (IF mem.is_critical THEN 10 ELSE 0) * max_turn * length

\* the largest turn id among the candidates, floored to 1
max_turn_of(candidates) ==
    LET turns == {candidates[i].turn_id : i \in 1..Len(candidates)}
    IN  Max(CHOOSE t \in turns : \A u \in turns : u <= t, 1)

\* variant: the first k candidates are returned as collected
hybrid_retrieval_unsorted(coll, query_text, session_id, k, recency_weight, similarity_weight) ==
    Prefix(hybrid_candidates(coll, query_text, session_id, k), k)

\* MemoryRetriever._hybrid_retrieval
hybrid_retrieval(coll, query_text, session_id, k, recency_weight, similarity_weight) ==
    LET all_memories == retrieve_by_session(coll, session_id, NoLimit)
        candidate_k == Min(k * 3, CandidateCap)
        semantic_results ==
            semantic_retrieval(coll, query_text, session_id, candidate_k)
        all_candidates == hybrid_candidates(coll, query_text, session_id, k)
        max_turn == max_turn_of(all_candidates)
        score == [p \in 1..Len(all_candidates) |->
                     combined_score(all_candidates[p], semantic_results,
                                    max_turn, recency_weight,
                                    similarity_weight)] @@ <<>>
        scored_memories == Sorted(all_candidates,
                             [j, i \in 1..Len(all_candidates) |->
                               \/ score[j] > score[i]
                               \/ score[j] = score[i] /\ j < i])
    IN  IF all_memories = <<>> THEN <<>>
        ELSE IF all_candidates = <<>> THEN <<>>
        ELSE Prefix(scored_memories, k)

\* variant: no backfill with important entries
critical_retrieval_no_backfill(coll, session_id, k) ==
    LET all_memories == retrieve_by_session(coll, session_id, NoLimit)
        critical == SelectSeq(all_memories, LAMBDA m : m.is_critical)
    IN  IF all_memories = <<>> THEN <<>> ELSE Prefix(critical, k)

\* MemoryRetriever._critical_retrieval
critical_retrieval(coll, session_id, k) ==
    LET all_memories == retrieve_by_session(coll, session_id, NoLimit)
        critical == SelectSeq(all_memories, LAMBDA m : m.is_critical)
        candidates == SelectSeq(all_memories, LAMBDA m :
                          ~m.is_critical /\ m.importance_score > ImportanceFloor)
        important == Sorted(candidates, [j, i \in 1..Len(candidates) |->
            \/ candidates[j].importance_score > candidates[i].importance_score
            \/ /\ candidates[j].importance_score
                    = candidates[i].importance_score
               /\ j < i])
        extended == IF Len(critical) < k
                    THEN critical \o Prefix(important, k - Len(critical))
                    ELSE critical
    IN  IF all_memories = <<>> THEN <<>> ELSE Prefix(extended, k)

\* MemoryRetriever.retrieve_relevant: the memories of the RetrievalResult
retrieve_relevant(coll, query_text, session_id, strategy, k, recency_weight, similarity_weight) ==
    IF strategy = "semantic"
    THEN semantic_retrieval(coll, query_text, session_id, k)
    ELSE IF strategy = "recency" THEN recency_retrieval(coll, session_id, k)
    ELSE IF strategy = "hybrid"
    THEN hybrid_retrieval(coll, query_text, session_id, k, recency_weight,
                          similarity_weight)
    ELSE critical_retrieval(coll, session_id, k)

\* MemoryAugmentedNegotiator._classify_message
classify_message(message) ==
    IF \E w \in {<<"accept">>, <<"deal">>, <<"agree">>, <<"yes">>} :
          Mentions(message, w)
    THEN "acceptance"
    ELSE IF \E w \in {<<"reject">>, <<"no", "thanks">>, <<"refuse">>,
                      <<"decline">>} : Mentions(message, w)
    THEN "rejection"
    ELSE IF \E w \in {<<"alliance">>, <<"ally">>, <<"together">>,
                      <<"cooperate">>} : Mentions(message, w)
    THEN "alliance"
    ELSE IF \E w \in {<<"betray">>, <<"attack", "you">>, <<"break">>} :
               Mentions(message, w)
    THEN "betrayal"
    ELSE IF \E w \in {<<"offer">>, <<"propose">>, <<"suggest">>,
                      <<"how", "about">>} : Mentions(message, w)
    THEN "offer"
    ELSE IF \E w \in {<<"counter">>, <<"instead">>} : Mentions(message, w)
    THEN "counteroffer"
    ELSE "chat"

\* MemoryAugmentedNegotiator._calculate_importance, in tenths
calculate_importance(message) ==
    LET importance_keywords ==
            {<<"alliance">>, <<"betray">>, <<"attack">>, <<"defend">>,
             <<"promise">>, <<"guarantee">>, <<"deal">>, <<"treaty">>,
             <<"agree">>, <<"support">>}
        matches == Cardinality({w \in importance_keywords :
                                   Mentions(message, w)})
    IN  Min(5 + Min(matches, 4), 10)

\* MemoryAugmentedNegotiator._is_critical_message
is_critical_message(message) ==
    \E w \in {<<"alliance">>, <<"betray">>, <<"treaty">>, <<"deal">>,
              <<"promise", "to">>, <<"guarantee">>, <<"commit", "to">>,
              <<"declare", "war">>} : Mentions(message, w)

\* the NegotiationMemory _store_interaction builds for the incoming message:
\* importance and critical flag keep the dataclass defaults
opponent_memory(session_id, turn_id, now, message) ==
    [memory_id |-> 0, session_id |-> session_id, turn_id |-> turn_id,
     timestamp |-> now, speaker |-> "opponent", message |-> message,
     message_type |-> classify_message(message),
     embedding |-> generate(message),
     importance_score |-> 5, is_critical |-> FALSE]

\* the NegotiationMemory _store_interaction builds for the agent's reply
self_memory(session_id, turn_id, now, agent_name, message) ==
    [memory_id |-> 0, session_id |-> session_id, turn_id |-> turn_id,
     timestamp |-> now, speaker |-> agent_name, message |-> message,
     message_type |-> classify_message(message),
     embedding |-> generate(message),
     importance_score |-> calculate_importance(message),
     is_critical |-> is_critical_message(message)]

\* agent_name of the negotiator
AgentName == "france"

\* sessions, query texts, strategies, counts and weights (tenths) used
Sessions == {"s1", "s2"}
Queries == {<<"price">>, <<"alliance">>}
Strategies == {"semantic", "recency", "hybrid", "critical"}
Ks == (0..MaxK) \cup {CandidateCap + 1}
Weights == {<<3, 7>>, <<10, 0>>, <<0, 10>>}

\* the turns a caller stores one by one: session, turn id, speaker, message
MemoryInputs ==
    { <<"s1", 0, "opponent", <<"price">> >>,
      <<"s1", 7, AgentName, <<"alliance", "treaty", "deal">> >>,
      <<"s1", 8, "opponent", <<"alliance">> >>,
      <<"s1", 3, AgentName, <<"attack", "defend", "support">> >>,
      <<"s2", 1, AgentName, <<"price">> >> }

\* a bulk load larger than the candidate cap: turn i of session s1 mentions
\* the price less and the alliance more than turn i - 1
BatchSize == CandidateCap + 2

Batch ==
    [i \in 1..BatchSize |->
        opponent_memory("s1", i - 1, i,
            [j \in 1..(BatchSize + 1) |->
                IF j <= i THEN "alliance" ELSE "price"])]

\* the memory ids of a list of memories
Ids(memories) == [i \in 1..Len(memories) |-> memories[i].memory_id]

\* the stored memory with the given id
Mem(id) == collection[CHOOSE i \in 1..Len(collection) :
                          collection[i].memory_id = id]

\* memory_store.store(memory) by a caller, the turn timestamped now
Store(m) ==
    /\ Len(collection) < MaxStored
    /\ LET now == Len(collection) + 1
           memory == IF m[3] = "opponent"
                     THEN opponent_memory(m[1], m[2], now, m[4])
                     ELSE self_memory(m[1], m[2], now, m[3], m[4])
       IN  collection' = store(collection, memory)
    /\ retrieved' = NoResult
    /\ UNCHANGED <<gamevars, over, chatvars, tradevars, agentvars>>

\* memory_store.store_batch(memories) into a fresh collection
StoreBatch ==
    /\ collection = <<>>
    /\ collection' = store_batch(collection, Batch)
    /\ retrieved' = NoResult
    /\ UNCHANGED <<gamevars, over, chatvars, tradevars, agentvars>>

\* a caller holds no result, or repeats its call with another query text
MayCall(op, query_text, session_id, k, w) ==
    \/ retrieved = NoResult
    \/ /\ retrieved.op = op
       /\ retrieved.session_id = session_id
       /\ retrieved.k = k
       /\ retrieved.recency_weight = w[1]
       /\ retrieved.similarity_weight = w[2]
       /\ retrieved.query # query_text

\* retriever.retrieve_relevant(query, session_id, strategy, k, weights)
RetrieveRelevant(query_text, session_id, strategy, k, w) ==
    /\ MayCall(strategy, query_text, session_id, k, w)
    /\ retrieved' =
         [op |-> strategy, query |-> query_text, session_id |-> session_id,
          k |-> k, recency_weight |-> w[1], similarity_weight |-> w[2],
          memories |-> Ids(retrieve_relevant(collection, query_text,
                                             session_id, strategy, k,
                                             w[1], w[2])),
          total_memories |-> -1]
    /\ UNCHANGED <<gamevars, over, chatvars, tradevars, collection, agentvars>>

\* memory_store.retrieve_by_similarity(embedding, k) without filters
RetrieveBySimilarity(query_text, k) ==
    /\ MayCall("retrieve_by_similarity", query_text, NoFilter, k, <<0, 0>>)
    /\ retrieved' =
         [op |-> "retrieve_by_similarity", query |-> query_text,
          session_id |-> NoFilter, k |-> k, recency_weight |-> 0,
          similarity_weight |-> 0,
          memories |-> Ids(retrieve_by_similarity(collection,
                               generate(query_text), k, NoFilter)),
          total_memories |-> -1]
    /\ UNCHANGED <<gamevars, over, chatvars, tradevars, collection, agentvars>>

\* memory_store.retrieve_recent(n) without session
RetrieveRecent(n) ==
    /\ retrieved = NoResult
    /\ retrieved' =
         [op |-> "retrieve_recent", query |-> <<>>, session_id |-> NoSession,
          k |-> n, recency_weight |-> 0, similarity_weight |-> 0,
          memories |-> Ids(retrieve_recent(collection, n, NoSession)),
          total_memories |-> -1]
    /\ UNCHANGED <<gamevars, over, chatvars, tradevars, collection, agentvars>>

\* memory_store.retrieve_by_session(session_id, limit)
RetrieveBySession(session_id, limit) ==
    /\ retrieved = NoResult
    /\ retrieved' =
         [op |-> "retrieve_by_session", query |-> <<>>,
          session_id |-> session_id, k |-> limit, recency_weight |-> 0,
          similarity_weight |-> 0,
          memories |-> Ids(retrieve_by_session(collection, session_id,
                                               limit)),
          total_memories |-> -1]
    /\ UNCHANGED <<gamevars, over, chatvars, tradevars, collection, agentvars>>

\* memory_store.get_stats(session_id)
GetStats(session_id) ==
    /\ retrieved = NoResult
    /\ retrieved' =
         [op |-> "get_stats", query |-> <<>>, session_id |-> session_id,
          k |-> 0, recency_weight |-> 0, similarity_weight |-> 0,
          memories |-> <<>>,
          total_memories |-> get_stats(collection, session_id).total_memories]
    /\ UNCHANGED <<gamevars, over, chatvars, tradevars, collection, agentvars>>

\* the game engine at rest beside the memory system
InitMemory ==
    /\ iterations = 1
    /\ game_state = <<StartEntry>>
    /\ turn = 0
    /\ current_iteration = 1
    /\ players = [idx \in Players |-> init_agent(idx)]
    /\ pc = "idle"
    /\ iteration = 1
    /\ response = <<>>
    /\ parsed = NoMessage
    /\ over = NoCheck
    /\ MemoryFresh
    /\ ChatFresh

NextMemory ==
    \/ \E m \in MemoryInputs : Store(m)
    \/ StoreBatch
    \/ \E q \in Queries, s \in Sessions, k \in Ks :
         \/ \E strategy \in Strategies \ {"hybrid"} :
               RetrieveRelevant(q, s, strategy, k, <<3, 7>>)
         \/ \E w \in Weights : RetrieveRelevant(q, s, "hybrid", k, w)
    \/ \E q \in Queries, k \in Ks : RetrieveBySimilarity(q, k)
    \/ \E n \in Ks : RetrieveRecent(n)
    \/ \E s \in Sessions, limit \in Ks \ {0} : RetrieveBySession(s, limit)
    \/ \E s \in Sessions : GetStats(s)

SpecMemory == InitMemory /\ [][NextMemory]_vars

\* ---------------------------------------------- memory-augmented negotiator
\* the default retrieval_config: hybrid, k = 5, weights 0.3 and 0.7
DefaultK == 5
DefaultWeights == <<3, 7>>

\* messages of the opponent and replies of the model
Incoming == {<<"price">>, <<"alliance">>}
Replies == {<<"price", "offer">>, <<"alliance", "treaty", "deal">>}

\* MemoryAugmentedNegotiator.start_session(session_id)
StartSession(session_id) ==
    /\ mpc \in {"ready", "raised"}
    /\ current_session_id' = session_id
    /\ turn_counter' = 0
    /\ mpc' = "ready"
    /\ UNCHANGED <<gamevars, over, chatvars, tradevars, collection, retrieved, pending>>

\* generate_response(message, ...) up to the model call: retrieve with the
\* retrieval_config, build the prompt, call the model
GenerateResponse(message) ==
    /\ mpc \in {"ready", "raised"}
    /\ current_session_id # NoSession
    /\ Len(collection) < 2 * MaxTurns
    /\ retrieved' =
         [op |-> "hybrid", query |-> message,
          session_id |-> current_session_id, k |-> DefaultK,
          recency_weight |-> DefaultWeights[1],
          similarity_weight |-> DefaultWeights[2],
          memories |-> Ids(retrieve_relevant(collection, message,
                               current_session_id, "hybrid", DefaultK,
                               DefaultWeights[1], DefaultWeights[2])),
          total_memories |-> -1]
    /\ pending' = message
    /\ mpc' = "llm"
    /\ UNCHANGED <<gamevars, over, chatvars, tradevars, collection, current_session_id,
                   turn_counter>>

\* MemoryAugmentedNegotiator._store_interaction(message, response, ...)
store_interaction(coll, session_id, counter, message, reply) ==
    LET opponent == opponent_memory(session_id, counter * 2, Len(coll) + 1,
                                    message)
        stored == store(coll, opponent)
        own == self_memory(session_id, counter * 2 + 1, Len(stored) + 1,
                           AgentName, reply)
    IN  store(stored, own)

\* the model call returns: the turn is stored, turn_counter advances and
\* generate_response returns the reply
CallLLMReturn(reply) ==
    /\ mpc = "llm"
    /\ collection' = store_interaction(collection, current_session_id,
                                       turn_counter, pending, reply)
    /\ turn_counter' = turn_counter + 1
    /\ retrieved' = NoResult
    /\ pending' = <<>>
    /\ mpc' = "ready"
    /\ UNCHANGED <<gamevars, over, chatvars, tradevars, current_session_id>>

\* variant: a failed call still counts as a turn
CallLLMRaise_counting ==
    /\ mpc = "llm"
    /\ turn_counter' = turn_counter + 1
    /\ retrieved' = NoResult
    /\ pending' = <<>>
    /\ mpc' = "raised"
    /\ UNCHANGED <<gamevars, over, chatvars, tradevars, collection, current_session_id>>

\* the model call raises: generate_response propagates the exception
CallLLMRaise ==
    /\ mpc = "llm"
    /\ retrieved' = NoResult
    /\ pending' = <<>>
    /\ mpc' = "raised"
    /\ UNCHANGED <<gamevars, over, chatvars, tradevars, collection, current_session_id,
                   turn_counter>>

NextAgent ==
    \/ \E s \in Sessions : StartSession(s)
    \/ \E message \in Incoming : GenerateResponse(message)
    \/ \E reply \in Replies : CallLLMReturn(reply)
    \/ CallLLMRaise

SpecAgent == InitMemory /\ [][NextAgent]_vars

\* generate_response(message, ...): retrieve_relevant raises (the embedding
\* service or the store fails); generate_response has no handler, so the
\* exception leaves it before the model is called
RetrieveRaise(message) ==
    /\ mpc \in {"ready", "raised"}
    /\ current_session_id # NoSession
    /\ retrieved' = NoResult
    /\ pending' = <<>>
    /\ mpc' = "raised"
    /\ UNCHANGED <<gamevars, over, chatvars, tradevars, collection, current_session_id,
                   turn_counter>>

NextFaulty ==
    \/ NextAgent
    \/ \E message \in Incoming : RetrieveRaise(message)

SpecFaulty == InitMemory /\ [][NextFaulty]_vars

\* ------------------------------------------------- agents under a caller
\* the game prompt and the role prompt a game hands to init_agent
GamePrompt(idx) == <<"game prompt " \o ToString(idx)>>

\* the exchange from which MemoryAugmentedAgentOpenAI.step adds its final
\* turn advice
FinalExchange == 5

\* the two branches of init_agent: AGENT_ONE gets the role as a user message,
\* AGENT_TWO gets it joined to the system prompt
seed(system_prompt, joined, role, idx) ==
    IF idx = 0
    THEN update_conversation_tracking(
             update_conversation_tracking(<<>>, "system", system_prompt),
             "user", role)
    ELSE update_conversation_tracking(<<>>, "system", joined)

\* LLama2ChatAgent.init_agent(system_prompt, role)
llama2_init_agent(a) ==
    [a EXCEPT !.conversation =
        seed(GamePrompt(a.idx), GamePrompt(a.idx) \o <<"">> \o Role(a.idx),
             Role(a.idx), a.idx)]

\* MemoryAugmentedAgentOpenAI.init_agent(game_prompt, role), no game played
\* so far: the strategy text is added and ChatGPTAgent.init_agent seeds
memory_init_agent(a) ==
    LET game_prompt == GamePrompt(a.idx) \o <<"=== STRATEGIC PROTOCOL ===">>
        system_prompt == game_prompt \o <<"=== PROTOCOL ===">>
    IN  [a EXCEPT !.conversation =
                      seed(system_prompt, system_prompt \o Role(a.idx),
                           Role(a.idx), a.idx),
                  !.turn_count = 0,
                  !.move_number = 0]

\* StatelessAgent.init_agent(game_prompt, role)
stateless_init_agent(a) ==
    [a EXCEPT !.base_prompt = GamePrompt(a.idx), !.conversation = <<>>]

\* variant: the seed is added to the conversation the agent already has
agent_init_agent_keeping(a) ==
    LET fresh == IF a.kind = "ChatGPTAgent"
                 THEN [a EXCEPT !.conversation = init_agent(a.idx).conversation,
                                !.turn_count = init_agent(a.idx).turn_count]
                 ELSE IF a.kind = "LLama2ChatAgent" THEN llama2_init_agent(a)
                 ELSE IF a.kind = "MemoryAugmentedAgentOpenAI"
                 THEN memory_init_agent(a)
                 ELSE stateless_init_agent(a)
    IN  [fresh EXCEPT !.conversation = a.conversation \o fresh.conversation]

\* init_agent of the agent's class
agent_init_agent(a) ==
    IF a.kind = "ChatGPTAgent"
    THEN [a EXCEPT !.conversation = init_agent(a.idx).conversation,
                   !.turn_count = init_agent(a.idx).turn_count]
    ELSE IF a.kind = "LLama2ChatAgent" THEN llama2_init_agent(a)
    ELSE IF a.kind = "MemoryAugmentedAgentOpenAI" THEN memory_init_agent(a)
    ELSE stateless_init_agent(a)

\* the turn text MemoryAugmentedAgentOpenAI.step adds to every observation
memory_turn_context(current_turn) ==
    <<"[Exchange " \o ToString(current_turn) \o "/6 - Your Turn "
        \o ToString((current_turn + 1) \div 2) \o "/3]">>
    \o (IF current_turn >= FinalExchange
        THEN <<"FINAL TURN (Exchange 5)", "NO INTEL: Estimate BLUE's threshold">>
        ELSE <<>>)

\* step(observation) of the agent's class up to the model call
agent_step_begin(a, observation) ==
    IF a.kind = "ChatGPTAgent"
    THEN LET p == step_begin([conversation |-> a.conversation,
                              turn_count |-> a.turn_count], a.idx, observation)
         IN  [a EXCEPT !.conversation = p.conversation,
                       !.turn_count = p.turn_count]
    ELSE IF a.kind = "MemoryAugmentedAgentOpenAI"
    THEN LET current_turn == a.move_number + 1
             modified_obs == observation \o memory_turn_context(current_turn)
         IN  [a EXCEPT !.move_number = current_turn,
                       !.conversation = update_conversation_tracking(
                                            a.conversation, "user", modified_obs)]
    ELSE IF a.kind = "LLama2ChatAgent"
    THEN [a EXCEPT !.conversation = update_conversation_tracking(
                                        a.conversation, "user", observation)]
    ELSE a

\* the messages of the model request of step(observation)
agent_request(a, observation) ==
    IF a.kind = "StatelessAgent"
    THEN <<[role |-> "system", content |-> a.base_prompt],
           [role |-> "user", content |-> observation]>>
    ELSE agent_step_begin(a, observation).conversation

\* variant: every class records the reply
agent_step_end_recording(a, reply) ==
    [a EXCEPT !.conversation = update_conversation_tracking(
                                   a.conversation, "assistant", reply)]

\* variant: the reply is returned but not recorded
agent_step_end_silent(a, reply) == a

\* step(observation) of the agent's class after the model returned reply
agent_step_end(a, reply) ==
    IF a.kind = "StatelessAgent" THEN a
    ELSE [a EXCEPT !.conversation = update_conversation_tracking(
                                        a.conversation, "assistant", reply)]

\* what the other player may have said, and what the model may answer
Observations == {EmptyObservation, <<"Opponent says:", "hello">>,
                 <<"Opponent's answer:", "ACCEPT">>}
ChatReplies == {<<"deal">>, <<"no">>}

\* a caller calls init_agent
AgentInit ==
    /\ call.outcome # "chat"
    /\ agent' = agent_init_agent(agent)
    /\ call' = [NoCall EXCEPT !.op = "init_agent", !.outcome = "returned",
                              !.before = agent.conversation]
    /\ UNCHANGED <<gamevars, over, tradevars, memvars>>

\* a caller calls step(observation): the agent reaches the model call
AgentStepCall(observation) ==
    /\ call.outcome # "chat"
    /\ Len(agent.conversation) < MaxConversation
    /\ agent' = agent_step_begin(agent, observation)
    /\ call' = [op |-> "step", observation |-> observation,
                request |-> agent_request(agent, observation),
                reply |-> <<>>, outcome |-> "chat",
                before |-> agent.conversation]
    /\ UNCHANGED <<gamevars, over, tradevars, memvars>>

\* the model call returns and step returns the reply
AgentStepReturn(reply) ==
    /\ call.outcome = "chat"
    /\ agent' = agent_step_end(agent, reply)
    /\ call' = [call EXCEPT !.reply = reply, !.outcome = "returned"]
    /\ UNCHANGED <<gamevars, over, tradevars, memvars>>

\* the model call raises and step propagates the exception
AgentStepRaise ==
    /\ call.outcome = "chat"
    /\ call' = [call EXCEPT !.outcome = "raised"]
    /\ UNCHANGED <<gamevars, over, tradevars, memvars, agent>>

InitChat ==
    /\ iterations = 1
    /\ game_state = <<StartEntry>>
    /\ turn = 0
    /\ current_iteration = 1
    /\ players = [idx \in Players |-> init_agent(idx)]
    /\ pc = "idle"
    /\ iteration = 1
    /\ response = <<>>
    /\ parsed = NoMessage
    /\ over = NoCheck
    /\ MemoryFresh
    /\ agent \in {new_agent(kind, idx) : kind \in Kinds, idx \in Players}
    /\ call = NoCall
    /\ player_resources = StartingResources

NextChat ==
    \/ AgentInit
    \/ \E observation \in Observations : AgentStepCall(observation)
    \/ \E reply \in ChatReplies : AgentStepReturn(reply)
    \/ AgentStepRaise

SpecChat == InitChat /\ [][NextChat]_vars

\* ---------------------------------------------------------------- trades
ResourceNames == {"X", MONEY_TOKEN}

\* the quantity of a resource in a Resources mapping: absent counts as zero
quantity(resources, name) ==
    IF name \in DOMAIN resources THEN resources[name] ELSE 0

\* both parties hold what the trade takes from them
sufficient(holdings, trade) ==
    \A p \in 1..2 : \A name \in ResourceNames :
        quantity(holdings[p], name) >= quantity(trade[p], name)

\* variant: what a party gives is not taken from it
execute_trade_crediting(holdings, trade) ==
    IF sufficient(holdings, trade)
    THEN [p \in 1..2 |-> [name \in ResourceNames |->
              quantity(holdings[p], name) + quantity(trade[3 - p], name)]]
    ELSE holdings

\* an accepted trade is applied key-wise to both holdings, or rejected whole
execute_trade(holdings, trade) ==
    IF sufficient(holdings, trade)
    THEN [p \in 1..2 |-> [name \in ResourceNames |->
              quantity(holdings[p], name) - quantity(trade[p], name)
                  + quantity(trade[3 - p], name)]]
    ELSE holdings

\* what one party may give in a trade, and the trades that may be accepted
Offers == {<<>>, [X |-> 1], [X |-> 2], [M |-> 50], [M |-> 55],
           [M |-> StartingMoney]}
Trades == {<<a, b>> : a \in Offers, b \in Offers}

\* a proposed trade is accepted
AcceptTrade(trade) ==
    /\ player_resources' = execute_trade(player_resources, trade)
    /\ UNCHANGED <<gamevars, over, memvars, chatvars>>

NextTrade == \E trade \in Trades : AcceptTrade(trade)

SpecTrade == InitMemory /\ [][NextTrade]_vars

TypeOK ==
    /\ pc \in {"idle", "loop", "chat", "write", "done", "aborted", "returned",
               "resume_failed", "resume_invalid", "parse", "parsed"}
    /\ turn \in {0, 1, NoTurn}
    /\ Len(game_state) >= 1

\* ------------------------------------------------------------- properties
Running == pc \in {"loop", "chat", "write"}
IsTurn(e) == e.kind = "TURN"
CarriesTag(e) == IsTurn(e) /\ e.player_public_info_dict.player_answer = ACCEPTING_TAG
TurnIndices == { i \in 1..Len(game_state) : IsTurn(game_state[i]) }
NoTagWritten == \A i \in 1..Len(game_state) : ~CarriesTag(game_state[i])
StepsInvoked == players[0].turn_count + players[1].turn_count
EntriesOf(idx) == Cardinality({ i \in TurnIndices : game_state[i].turn = idx })
\* a step of resume(k) that ran to its end
ResumeDone == ~Running /\ pc' = "idle"

\* C1: in a run from a fresh game and in a run continued after resume the
\* stepping player alternates strictly: player 0 moves first, the player
\* whose step is invoked at iteration i is player (i-1) mod 2, and any two
\* consecutive turn entries carry different turn values, both in {0,1}.
C1_StrictAlternation ==
    /\ Running => turn = (iteration - 1) % 2
    /\ pc \in {"chat", "write"} => iteration = current_iteration
    /\ \A i \in TurnIndices : game_state[i].turn \in {0, 1}
    /\ \A i \in TurnIndices : i = 2 => game_state[i].turn = 0
    /\ \A i \in TurnIndices, j \in TurnIndices :
          (i < j /\ \A m \in (i + 1)..(j - 1) : m \notin TurnIndices)
              => game_state[i].turn # game_state[j].turn

\* a step is in flight in a run continued after resume(k), k >= 3: the entry
\* resume regenerated carries k, and the opponent of its player is moving
C1_Witness ==
    /\ pc = "chat"
    /\ \E i \in TurnIndices :
          /\ game_state[i].current_iteration = i
          /\ i >= 3
          /\ i = Len(game_state)
          /\ turn = 1 - game_state[i].turn

C3_ExactlyMaxIterations ==
    /\ StepsInvoked <= iterations
    /\ pc # "returned"
    /\ (pc = "done" /\ NoTagWritten)
          => /\ StepsInvoked = iterations
             /\ Cardinality(TurnIndices) = iterations
             /\ current_iteration = iterations
             /\ game_state[Len(game_state)].kind = "END"

\* a run of at least two iterations ended at the maximum without the tag
C3_Witness ==
    /\ pc = "done"
    /\ NoTagWritten
    /\ iterations >= 2
    /\ StepsInvoked = iterations

\* C4: the history is append-only: every step of run (write_game_state,
\* after_game_ends included) leaves the recorded entries in place and only
\* adds behind them; resume is the only operation that shortens the history,
\* and what it retains is an unchanged prefix of the old history.
C4_AppendOnly ==
    [][ /\ Running
            => /\ Len(game_state') >= Len(game_state)
               /\ SubSeq(game_state', 1, Len(game_state)) = game_state
        /\ ~Running
            => \/ game_state' = game_state
               \/ /\ pc' = "idle"
                  /\ Len(game_state') <= Len(game_state)
                  /\ SubSeq(game_state', 1, Len(game_state') - 1)
                        = SubSeq(game_state, 1, Len(game_state') - 1)
      ]_vars

\* resume has cut a finished three-iteration history back to two entries
C4_Witness ==
    /\ pc = "idle"
    /\ iterations = 3
    /\ Len(game_state) = 2
    /\ iteration = 3

\* C5: when parse raises on the response, write_game_state propagates: the
\* run aborts, no entry is appended for the iteration, the turn is not
\* switched, and no entry ever records a response that does not parse.
C5_ParseFailureAborts ==
    /\ [][ (pc = "write" /\ ParseRaises(response))
              => /\ pc' = "aborted"
                 /\ game_state' = game_state
                 /\ turn' = turn
                 /\ current_iteration' = current_iteration ]_vars
    /\ [](\A i \in TurnIndices : ~ParseRaises(game_state[i].player_complete_answer))
    /\ []((pc = "aborted" /\ ParseRaises(response))
            => Cardinality(TurnIndices) = current_iteration - 1)

\* the run aborted on the reply the current player has just recorded
C5_Witness ==
    /\ pc = "aborted"
    /\ ParseRaises(response)
    /\ players[turn].conversation[Len(players[turn].conversation)].content = response
    /\ Len(game_state) >= 2

\* the contents of the secret fields and of the public fields of a message
SecretContents(ms) == {ms.secret.resources, ms.secret.name, ms.secret.reason}
PublicContents(ms) ==
    {ms.public.message, ms.public.player_answer, ms.public.proposed_trade}

\* C6 as stated: the text shown to the other player never contains the
\* content of a secret field (the empty content, which every text contains,
\* is left aside).
C6_NeverContainsSecret ==
    pc = "parsed"
        => \A c \in SecretContents(parsed) :
              c # <<>> => ~IsSubstring(c, parsed.text)

\* C6 amended: the text is built from the public fields only, so the content
\* of a secret field occurs in it only where a public field itself contains
\* that content.
C6_PublicFieldsOnly ==
    pc = "parsed"
        => \A c \in SecretContents(parsed) :
              (c # <<>> /\ IsSubstring(c, parsed.text))
                  => \E q \in PublicContents(parsed) : IsSubstring(c, q)

\* a message whose reasoning is secret and not repeated in public, next to
\* a name that the public message repeats
C6_Witness ==
    /\ pc = "parsed"
    /\ parsed.secret.reason = <<"bluff">>
    /\ ~IsSubstring(parsed.secret.reason, parsed.text)
    /\ parsed.secret.name = <<"RED">>
    /\ IsSubstring(parsed.secret.name, parsed.text)

\* C7: an iteration invokes step once and on the current player only; the
\* call has returned before the entry is appended and before the opponent
\* is stepped; a step that raises aborts the run, is not retried, and leaves
\* game_state and turn as they were; while a step runs nothing writes
\* game_state.
C7_SequentialSteps ==
    /\ [][ /\ (pc = "loop" /\ pc' = "chat")
               => /\ players'[turn].turn_count = players[turn].turn_count + 1
                  /\ players'[1 - turn] = players[1 - turn]
           /\ pc' = "chat" => pc = "loop"
           /\ pc = "chat"
               => /\ pc' \in {"write", "aborted"}
                  /\ game_state' = game_state
                  /\ turn' = turn
                  /\ players'[1 - turn] = players[1 - turn]
           /\ pc = "loop" => game_state' = game_state
           /\ (Running /\ game_state' # game_state) => pc = "write"
           /\ pc = "aborted" => ~Running'
         ]_vars
    /\ [](pc \in {"idle", "loop", "done", "returned"}
            => \A idx \in Players : players[idx].turn_count = EntriesOf(idx))
    /\ [](pc \in {"chat", "write"}
            => /\ players[turn].turn_count = EntriesOf(turn) + 1
               /\ players[1 - turn].turn_count = EntriesOf(1 - turn))

\* the model call of the second iteration raised: the run is aborted and
\* the stepping player's conversation ends with the unanswered observation
C7_Witness ==
    /\ pc = "aborted"
    /\ Len(game_state) = 2
    /\ players[turn].conversation[Len(players[turn].conversation)].role = "user"
    /\ players[turn].turn_count = EntriesOf(turn) + 1

\* C8: resume(k) makes no model call: the players it leaves are the stored
\* snapshot, the regenerated entry is the stored entry of list position k
\* recomputed from the stored response, and the outcome is a function of the
\* stored history and k alone, so that a second resume(k) changes nothing.
C8_ResumeReplaysStored ==
    [][ ResumeDone =>
          LET k == current_iteration'
          IN  /\ k \in 2..Len(game_state)
              /\ IsTurn(game_state[k])
              /\ \A idx \in Players :
                    players'[idx] = game_state[k].player_state[idx + 1]
              /\ game_state' = Append(SubSeq(game_state, 1, k - 1),
                                      [game_state[k] EXCEPT !.current_iteration = k])
              /\ turn' = 1 - game_state[k].turn
              /\ (pc = "idle" /\ current_iteration = k)
                    => UNCHANGED <<game_state, turn, players>>
      ]_vars

\* resume(3) has replayed the stored reply of player 1 and left both
\* players as the snapshot holds them, one step each
C8_Witness ==
    /\ pc = "idle"
    /\ current_iteration = 3
    /\ Len(game_state) = 3
    /\ StepsInvoked = 2
    /\ game_state[3].player_complete_answer
          = players[1].conversation[Len(players[1].conversation)].content

\* C9 as stated: after resume(k) the entries of the iterations before k are
\* retained unchanged, the last entry is the entry originally recorded for
\* iteration k, and the turn passes to the other player.
C9_ResumeRegeneratesIterationK ==
    [][ ResumeDone =>
          LET k == current_iteration'
              last == game_state'[Len(game_state')]
          IN  /\ \A i \in 1..Len(game_state) :
                    (IsTurn(game_state[i]) /\ game_state[i].current_iteration < k)
                        => (i <= Len(game_state') /\ game_state'[i] = game_state[i])
              /\ \A i \in 1..Len(game_state) :
                    (IsTurn(game_state[i]) /\ game_state[i].current_iteration = k)
                        => last = game_state[i]
              /\ last.current_iteration = k
              /\ turn' = 1 - last.turn
      ]_vars

\* C10 as stated: a run that aborted is resumable from the last written
\* entry: resume on that entry (the last position of the history) succeeds.
C10_AbortedRunResumable ==
    [][ (pc = "aborted" /\ pc' \in {"idle", "resume_failed"}
           /\ current_iteration' = Len(game_state))
          => pc' = "idle" ]_vars

C12_SafeDefaults ==
    /\ pc = "parse" => ~ParseRaises(response) /\ ENABLED ParseMessage
    /\ pc = "parsed" =>
         \A n \in NameTexts, r \in ResourceTexts, why \in ReasonTexts,
            a \in AnswerTexts, t \in TradeTexts, m \in MessageTexts :
            response = Raw(n, r, why, a, t, m) =>
              /\ r \notin ValidResources => parsed.secret.resources = <<>>
              /\ r \in ValidResources => parsed.secret.resources = r
              /\ t \notin ValidTrades => parsed.public.proposed_trade = NONE
              /\ t \in ValidTrades => parsed.public.proposed_trade = t
              /\ a = Absent => parsed.public.player_answer = NONE
              /\ a # Absent => parsed.public.player_answer = a

\* a response with an invalid resources tag, an invalid trade and no player
\* answer has been parsed to the defaults
C12_Witness ==
    /\ pc = "parsed"
    /\ response = Raw(<<"RED">>, <<"junk">>, <<"deal">>, Absent, <<"junk">>,
                      <<"deal">>)
    /\ parsed.secret.resources = <<>>
    /\ parsed.public.proposed_trade = NONE
    /\ parsed.public.player_answer = NONE

\* the stored memories of a session, as a set of ids
SessionIds(session_id) ==
    {collection[i].memory_id :
        i \in {j \in 1..Len(collection) :
                  collection[j].session_id = session_id}}

\* the retrieval last made is one of retrieve_relevant
Relevant == retrieved.op \in Strategies

\* C13: on an empty store and on a session without memories retrieve_relevant
\* completes with an empty result under each of the four strategies, and
\* get_stats of that session reports total_memories = 0.
C13_EmptySessionEmptyResult ==
    /\ Relevant /\ SessionIds(retrieved.session_id) = {}
          => retrieved.memories = <<>>
    /\ retrieved.op = "get_stats" /\ SessionIds(retrieved.session_id) = {}
          => retrieved.total_memories = 0
    /\ retrieved = NoResult =>
          \A s \in Sessions : SessionIds(s) = {} =>
             /\ ENABLED GetStats(s)
             /\ \A strategy \in Strategies, q \in Queries, k \in Ks :
                   ENABLED RetrieveRelevant(q, s, strategy, k, <<3, 7>>)

\* hybrid retrieval on a session without memories in a store that holds
\* memories of another session came back empty
C13_Witness ==
    /\ retrieved.op = "hybrid"
    /\ retrieved.session_id = "s2"
    /\ retrieved.k = 2
    /\ SessionIds("s2") = {}
    /\ Len(collection) = MaxStored
    /\ retrieved.memories = <<>>

\* the retrieval last made takes a count
Counted ==
    \/ Relevant
    \/ retrieved.op \in {"retrieve_by_similarity", "retrieve_recent",
                          "retrieve_by_session"}

Range(seq) == {seq[i] : i \in 1..Len(seq)}

\* for the hybrid retrieval last made: what semantic and recency retrieval
\* give for min(3k, 50), as ids
HybridSemantic ==
    Ids(semantic_retrieval(collection, retrieved.query, retrieved.session_id,
                           Min(3 * retrieved.k, 50)))
HybridRecent ==
    Ids(recency_retrieval(collection, retrieved.session_id,
                          Min(3 * retrieved.k, 50)))

\* the score the specification gives candidate id, times
\* 100 * max_turn_id * len(semantic_results); semantic lists the ids of the
\* semantic results and turns the turn ids of all candidates
SpecScore(id, semantic, turns) ==
    LET top == CHOOSE t \in turns : \A u \in turns : u <= t
        max_turn_id == IF top < 1 THEN 1 ELSE top
        length == Len(semantic)
        semantic_rank ==
            IF id \in Range(semantic)
            THEN (CHOOSE i \in 1..length : semantic[i] = id) - 1
            ELSE length
    IN  10 * retrieved.recency_weight * Mem(id).turn_id * length
        + 10 * retrieved.similarity_weight * (length - semantic_rank)
             * max_turn_id
        + Mem(id).importance_score * max_turn_id * length
        + (IF Mem(id).is_critical THEN 10 ELSE 0) * max_turn_id * length

ResultTurns == [i \in 1..Len(retrieved.memories) |->
                   Mem(retrieved.memories[i]).turn_id]

\* the retrieval last made is hybrid with recency_weight 1, similarity_weight 0
RecencyOnly ==
    /\ retrieved.op = "hybrid"
    /\ retrieved.recency_weight = 10
    /\ retrieved.similarity_weight = 0

\* all memories of the session have the same importance and critical flag
UniformBoost(session_id) ==
    \A i, j \in 1..Len(collection) :
        collection[i].session_id = session_id
          /\ collection[j].session_id = session_id
        => /\ collection[i].importance_score = collection[j].importance_score
           /\ collection[i].is_critical = collection[j].is_critical

\* C16 as stated: hybrid retrieval with recency_weight 1 and similarity_weight
\* 0 returns its results in descending turn-id order for every session
\* content and every k.
C16_RecencyOnlyDescending ==
    RecencyOnly =>
        \A i, j \in 1..Len(retrieved.memories) :
            i < j => ResultTurns[i] >= ResultTurns[j]

\* C16 amended: over a session whose memories all have the same importance
\* and critical flag, hybrid retrieval with recency_weight 1 and
\* similarity_weight 0 returns its results in descending turn-id order.
C16_UniformDescending ==
    RecencyOnly /\ UniformBoost(retrieved.session_id) =>
        \A i, j \in 1..Len(retrieved.memories) :
            i < j => ResultTurns[i] >= ResultTurns[j]

\* such a retrieval of 2 from the bulk-loaded session returned the two
\* highest turn ids, highest first, for a query nearest to other turns
C16_Witness ==
    /\ RecencyOnly
    /\ UniformBoost(retrieved.session_id)
    /\ Len(collection) = BatchSize
    /\ retrieved.k = 2
    /\ ResultTurns = <<BatchSize - 1, BatchSize - 2>>
    /\ retrieved.memories # HybridSemantic

\* the retrieval last made is hybrid with recency_weight 0, similarity_weight 1
SimilarityOnly ==
    /\ retrieved.op = "hybrid"
    /\ retrieved.recency_weight = 0
    /\ retrieved.similarity_weight = 10

\* all memories of the session have importance 0.5 and are not critical
DefaultBoost(session_id) ==
    \A i \in 1..Len(collection) :
        collection[i].session_id = session_id
        => /\ collection[i].importance_score = 5
           /\ ~collection[i].is_critical

\* what pure semantic retrieval gives for the query, session and k of the
\* retrieval last made
PureSemantic ==
    Ids(semantic_retrieval(collection, retrieved.query, retrieved.session_id,
                           retrieved.k))

CriticalIds(session_id) ==
    {id \in SessionIds(session_id) : Mem(id).is_critical}
ImportantIds(session_id) ==
    {id \in SessionIds(session_id) :
        ~Mem(id).is_critical /\ Mem(id).importance_score > 7}

\* the memories returned last come critical ones first, the others by
\* descending importance
CriticalFirst ==
    \A i, j \in 1..Len(retrieved.memories) : i < j =>
        LET a == Mem(retrieved.memories[i])
            b == Mem(retrieved.memories[j])
        IN  /\ b.is_critical => a.is_critical
            /\ ~a.is_critical => a.importance_score >= b.importance_score

\* C18 as stated: critical retrieval returns the critical entries first,
\* backfilled by importance, and exactly min(k, number of memories in the
\* session) entries.
C18_CriticalFillsToK ==
    retrieved.op = "critical" =>
        /\ CriticalFirst
        /\ Len(retrieved.memories)
             = Min(retrieved.k, Cardinality(SessionIds(retrieved.session_id)))

\* C18 amended: critical retrieval returns the critical entries first and
\* backfills only with non-critical entries of importance above 0.7, highest
\* first: min(k, critical entries + such important entries) entries, none
\* twice, and no important entry left out outranks a backfilled one.
C18_CriticalThenImportant ==
    retrieved.op = "critical" =>
        LET result == retrieved.memories
            critical == CriticalIds(retrieved.session_id)
            important == ImportantIds(retrieved.session_id)
        IN  /\ CriticalFirst
            /\ Range(result) \subseteq critical \cup important
            /\ \A i, j \in 1..Len(result) : i < j => result[i] # result[j]
            /\ Len(result)
                 = Min(retrieved.k,
                       Cardinality(critical) + Cardinality(important))
            /\ Len(result) < retrieved.k => critical \subseteq Range(result)
            /\ \A c \in important \ Range(result) :
                  \A id \in Range(result) \ critical :
                     Mem(id).importance_score >= Mem(c).importance_score

\* critical retrieval of 51 from a session of three memories (one critical,
\* one important, one ordinary) returned the critical and the important one
C18_Witness ==
    /\ retrieved.op = "critical"
    /\ retrieved.k = CandidateCap + 1
    /\ Cardinality(SessionIds(retrieved.session_id)) = 3
    /\ Len(retrieved.memories) = 2
    /\ Mem(retrieved.memories[1]).is_critical
    /\ ~Mem(retrieved.memories[2]).is_critical
    /\ Mem(retrieved.memories[2]).importance_score = 8

\* the memories returned last are the k newest of their session, newest first
NewestOfSession ==
    LET result == retrieved.memories
        session == SessionIds(retrieved.session_id)
    IN  /\ Range(result) \subseteq session
        /\ Len(result) = Min(retrieved.k, Cardinality(session))
        /\ \A i, j \in 1..Len(result) :
              i < j => Mem(result[i]).timestamp > Mem(result[j]).timestamp
        /\ \A id \in session \ Range(result) :
              \A i \in 1..Len(result) :
                 Mem(result[i]).timestamp > Mem(id).timestamp

\* a recency retrieval is repeated on the same store with another query text
RecencyRepeated ==
    /\ retrieved.op = "recency"
    /\ retrieved'.op = "recency"
    /\ retrieved'.session_id = retrieved.session_id
    /\ retrieved'.k = retrieved.k
    /\ retrieved'.query # retrieved.query
    /\ collection' = collection

\* C19: recency retrieval returns the k most recently timestamped memories of
\* the given session, newest first, none of another session, and the same
\* result when the call is repeated with another query text.
C19_RecencyIgnoresQuery ==
    /\ [](retrieved.op = "recency" => NewestOfSession)
    /\ [][RecencyRepeated => retrieved'.memories = retrieved.memories]_vars

\* recency retrieval of 2 from a store of three memories, the newest one of
\* another session and the other two stored against their turn order,
\* returned those two, the later stored first
C19_Witness ==
    /\ retrieved.op = "recency"
    /\ retrieved.session_id = "s1"
    /\ retrieved.k = 2
    /\ Len(collection) = 3
    /\ collection[3].session_id = "s2"
    /\ collection[1].turn_id > collection[2].turn_id
    /\ retrieved.memories = <<2, 1>>

\* the last two memories of the collection are the turn just stored: the
\* incoming message under turn id 2n and the reply under 2n + 1, n the
\* turn_counter before the call
TurnStored ==
    LET n == turn_counter
        len == Len(collection)
        opponent == collection'[len + 1]
        own == collection'[len + 2]
    IN  /\ Len(collection') = len + 2
        /\ SubSeq(collection', 1, len) = collection
        /\ opponent.turn_id = 2 * n
        /\ opponent.speaker = "opponent"
        /\ opponent.message = pending
        /\ opponent.session_id = current_session_id
        /\ own.turn_id = 2 * n + 1
        /\ own.speaker = AgentName
        /\ own.session_id = current_session_id
        /\ own.timestamp > opponent.timestamp

C21_RetrievalFailureAnswered ==
    [][mpc # "llm" => mpc' # "raised"]_vars

\* the last Len(part) elements of text are part
EndsWith(text, part) ==
    /\ Len(text) >= Len(part)
    /\ SubSeq(text, Len(text) - Len(part) + 1, Len(text)) = part

\* C22: after init_agent the conversation of a ChatGPTAgent or
\* LLama2ChatAgent is exactly the seed of its position, whatever it held
\* before: for the first mover a system message and the role as a user
\* message, for the second mover one system message that ends with the role;
\* it is the conversation init_agent leaves on a new agent.
C22_InitAgentSeeds ==
    (call.op = "init_agent"
        /\ agent.kind \in {"ChatGPTAgent", "LLama2ChatAgent"}) =>
        LET c == agent.conversation
            role == Role(agent.idx)
        IN  /\ c = agent_init_agent(new_agent(agent.kind, agent.idx)).conversation
            /\ IF agent.idx = 0
               THEN /\ Len(c) = 2
                    /\ c[1].role = "system"
                    /\ ~EndsWith(c[1].content, role)
                    /\ c[2] = [role |-> "user", content |-> role]
               ELSE /\ Len(c) = 1
                    /\ c[1].role = "system"
                    /\ EndsWith(c[1].content, role)
                    /\ Len(c[1].content) > Len(role)

\* init_agent called on a second mover that has taken two steps
C22_Witness ==
    /\ call.op = "init_agent"
    /\ agent.kind = "LLama2ChatAgent"
    /\ agent.idx = 1
    /\ Len(call.before) = 5
    /\ call.before[5].role = "assistant"
    /\ Len(agent.conversation) = 1

\* text begins with part
BeginsWith(text, part) ==
    Len(text) >= Len(part) /\ SubSeq(text, 1, Len(part)) = part

\* a step of an agent that keeps its conversation has returned
StepReturned ==
    /\ call.op = "step"
    /\ call.outcome = "returned"
    /\ agent.kind \in {"ChatGPTAgent", "MemoryAugmentedAgentOpenAI"}

\* C23 as stated: after every successful step the conversation is exactly
\* two messages longer, its second-to-last message is the observation
\* received as a user turn and its last message is the returned reply as an
\* assistant turn.
C23_StepAppendsObservationAndReply ==
    StepReturned =>
        LET c == agent.conversation
            n == Len(c)
        IN  /\ n = Len(call.before) + 2
            /\ SubSeq(c, 1, n - 2) = call.before
            /\ c[n - 1] = [role |-> "user", content |-> call.observation]
            /\ c[n] = [role |-> "assistant", content |-> call.reply]

\* C23: after every successful step the conversation is exactly two
\* messages longer, its second-to-last message is a user turn that begins
\* with the observation received (and is the observation alone for a first
\* mover ChatGPTAgent), its last message is the returned reply as an
\* assistant turn, and the model was asked once, with that conversation up
\* to the user turn.
C23_StepAppendsTurnAndReply ==
    StepReturned =>
        LET c == agent.conversation
            n == Len(c)
        IN  /\ n = Len(call.before) + 2
            /\ SubSeq(c, 1, n - 2) = call.before
            /\ c[n - 1].role = "user"
            /\ BeginsWith(c[n - 1].content, call.observation)
            /\ (agent.kind = "ChatGPTAgent" /\ agent.idx = 0)
                   => c[n - 1].content = call.observation
            /\ c[n] = [role |-> "assistant", content |-> call.reply]
            /\ call.request = SubSeq(c, 1, n - 1)

\* a second mover has answered its second observation: the user turn holds
\* the observation and the turn banner
C23_Witness ==
    /\ StepReturned
    /\ agent.kind = "ChatGPTAgent"
    /\ agent.idx = 1
    /\ Len(agent.conversation) = 5
    /\ call.observation = <<"Opponent says:", "hello">>
    /\ agent.conversation[4].content # call.observation
    /\ agent.conversation[5].content = <<"deal">>

\* the length of the seed init_agent leaves for the agent's position
SeedLength == IF agent.idx = 0 THEN 2 ELSE 1

\* C30 as stated: a step whose model call fails leaves the conversation as
\* it was at the call, and in the conversation of an initialised agent that
\* is not inside a step every user message after the seed is immediately
\* followed by an assistant message.
C30_FailedStepLeavesConversation ==
    (agent.kind \in {"ChatGPTAgent", "MemoryAugmentedAgentOpenAI"}
        /\ call.outcome # "chat") =>
        LET c == agent.conversation
        IN  /\ (call.op = "step" /\ call.outcome = "raised")
                   => c = call.before
            /\ (c # <<>> /\ c[1].role = "system") =>
                   \A i \in (SeedLength + 1)..Len(c) :
                       c[i].role = "user" =>
                           (i < Len(c) /\ c[i + 1].role = "assistant")

\* C26: the stateless agent keeps no history: its conversation is empty
\* whatever was called, and the request of a step is exactly the stored base
\* prompt as system message and the current observation as user message, so
\* the request is determined by the base prompt and the current observation
\* alone.
C26_StatelessKeepsNoHistory ==
    agent.kind = "StatelessAgent" =>
        /\ agent.conversation = <<>>
        /\ call.op = "step" =>
               call.request =
                   <<[role |-> "system", content |-> agent.base_prompt],
                     [role |-> "user", content |-> call.observation]>>

\* an initialised stateless agent has answered an observation
C26_Witness ==
    /\ agent.kind = "StatelessAgent"
    /\ agent.base_prompt = GamePrompt(agent.idx)
    /\ call.op = "step"
    /\ call.outcome = "returned"
    /\ call.observation = <<"Opponent says:", "hello">>
    /\ call.reply = <<"deal">>

\* the sum of a resource over both players' holdings
Total(holdings, name) ==
    quantity(holdings[1], name) + quantity(holdings[2], name)

\* the step applies trade in full to both holdings
AppliedInFull(trade) ==
    \A p \in 1..2 : \A name \in ResourceNames :
        quantity(player_resources'[p], name)
            = quantity(player_resources[p], name) - quantity(trade[p], name)
                  + quantity(trade[3 - p], name)

\* C24: over every sequence of accepted trades the sum of each resource over
\* both holdings stays what it was at the start and no holding is negative,
\* and a trade is never partially applied: a step either applies a trade
\* both parties can afford in full to both holdings or changes nothing.
C24_TradesConserveResources ==
    /\ [](\A name \in ResourceNames :
             /\ Total(player_resources, name) = Total(StartingResources, name)
             /\ \A p \in 1..2 : quantity(player_resources[p], name) >= 0)
    /\ [][\/ \A p \in 1..2 : \A name \in ResourceNames :
                quantity(player_resources'[p], name)
                    = quantity(player_resources[p], name)
          \/ \E trade \in Trades :
                sufficient(player_resources, trade) /\ AppliedInFull(trade)
         ]_vars

\* the buy-sell scenario: one unit of X sold for 55
C24_Witness ==
    /\ quantity(player_resources[1], "X") = 0
    /\ quantity(player_resources[1], MONEY_TOKEN) = 55
    /\ quantity(player_resources[2], "X") = 1
    /\ quantity(player_resources[2], MONEY_TOKEN) = 945

\* the entry with everything but its public fields blanked
Scrub(entry) ==
    [entry EXCEPT !.player_private_info_dict = EmptySecret,
                  !.player_complete_answer = <<>>,
                  !.player_public_answer_string = <<>>,
                  !.player_state = <<>>]

\* the observation for iteration it + 1 is that of the public fields of the
\* entry at index it alone
PublicOnly(it) ==
    LET e == game_state[it + 1]
        public == e.player_public_info_dict
        obs == read_iteration_message(game_state, it)
    IN  /\ obs = read_iteration_message(<<Scrub(e)>>, 0)
        /\ obs = read_iteration_message(
                     [i \in 1..Len(game_state) |-> Scrub(game_state[i])], it)
        /\ (public.message = <<>> /\ public.proposed_trade = <<>>
                /\ public.player_answer = <<>>) => obs = EmptyObservation
        /\ public.proposed_trade = NONE
               => "Opponent's proposal:" \notin Range(obs)
        /\ public.player_answer = NONE
               => "Opponent's answer:" \notin Range(obs)

\* C25: the observation handed to step at iteration i is computed from the
\* public fields of the history entry at index i - 1 alone: it is empty when
\* there is no such entry or the entry has no public fields, a proposed
\* trade or answer NONE is not rendered, blanking the secret fields, raw
\* responses and agent snapshots of the history does not change it, and it
\* is what the stepping player records as its user turn.
C25_ObservationFromPublicFields ==
    /\ [](/\ read_iteration_message(game_state, -1) = EmptyObservation
          /\ read_iteration_message(game_state, Len(game_state))
                 = EmptyObservation
          /\ \A it \in 0..(Len(game_state) - 1) : PublicOnly(it))
    /\ [][(pc = "loop" /\ pc' = "chat") =>
              LET c == players'[turn].conversation
              IN  /\ Len(c) = Len(players[turn].conversation) + 1
                  /\ c[Len(c)].role = "user"
                  /\ BeginsWith(c[Len(c)].content,
                         read_iteration_message(game_state, iteration - 1))
         ]_vars

\* a player is stepping on an observation rendered from an entry that also
\* holds a secret reason
C25_Witness ==
    /\ pc = "chat"
    /\ Len(game_state) >= 2
    /\ game_state[iteration].player_private_info_dict.reason # <<>>
    /\ game_state[iteration].player_public_info_dict.player_answer # <<>>
    /\ "Opponent's proposal:"
           \in Range(read_iteration_message(game_state, iteration - 1))
    /\ BeginsWith(players[turn].conversation[
                      Len(players[turn].conversation)].content,
                  <<"Opponent says:">>)

\* the turn entries among the first i entries of the history
TurnsUpTo(i) == Cardinality({j \in 1..i : IsTurn(game_state[j])})

\* C27 as stated: in every history reachable by run and resume the
\* iteration indices of the turn entries strictly increase and each index is
\* the entry's position among the turn entries.
C27_IterationIndicesIncrease ==
    \A i \in 1..Len(game_state) :
        IsTurn(game_state[i]) =>
            /\ game_state[i].current_iteration = TurnsUpTo(i)
            /\ \A j \in 1..(i - 1) :
                   IsTurn(game_state[j]) =>
                       game_state[j].current_iteration
                           < game_state[i].current_iteration

\* C28 as stated: a history holds at most one END entry and it is the last
\* entry; no later call of run appends anything after it.
C28_EndIsLastEntry ==
    \A i \in 1..Len(game_state) :
        game_state[i].kind = "END" => i = Len(game_state)

\* C29 as stated: within one session every stored memory has a turn_id of
\* its own, after any sequence of start_session and generate_response calls.
C29_TurnIdsDistinctInSession ==
    \A i \in 1..Len(collection) : \A j \in 1..Len(collection) :
        (i # j /\ collection[i].session_id = collection[j].session_id)
            => collection[i].turn_id # collection[j].turn_id

====
